---- MODULE Spec2Model ----
(***************************************************************************)
(* Model of gdb/install_libcxx_printers.py: one run of main().             *)
(*                                                                         *)
(* Text is modelled as a sequence of atoms.  An atom is one character      *)
(* ("a", "-", "."), or a chunk of text that holds no path separator and is *)
(* never taken apart ("tmp", ".py", the fixed parts of the URL).  Two      *)
(* characters outside ASCII have names: "KELVIN" is U+212A KELVIN SIGN and *)
(* "IDOT" is U+0130 LATIN CAPITAL LETTER I WITH DOT ABOVE, whose lower     *)
(* case is the two characters "i" and "COMBINING_DOT" (U+0307).            *)
(* An optional value (None or a value) is a sequence of length 0 or 1.     *)
(***************************************************************************)
EXTENDS Integers, Sequences, FiniteSets, TLC

\* ------------------------------------------------------------------ bounds

\* The largest number of output lines a subprocess (grep, dpkg) returns.
MaxLines == 2

\* args.commit[:11]
CommitPrefixLen == 11

\* ------------------------------------------------------------- text helpers

None == << >>
Some(x) == << x >>

\* Python truthiness of an Optional[str]: None and "" are falsy.
Truthy(opt) == opt # None /\ opt[1] # << >>

\* s[:n]
Prefix(s, n) == SubSeq(s, 1, IF Len(s) < n THEN Len(s) ELSE n)

\* `s in t` for two strings: s occurs in t as a substring.
IsSubstring(s, t) ==
    \E i \in 0..(Len(t) - Len(s)) : SubSeq(t, i + 1, i + Len(s)) = s

UpperLetters ==
    << "A", "B", "C", "D", "E", "F", "G", "H", "I", "J", "K", "L", "M",
       "N", "O", "P", "Q", "R", "S", "T", "U", "V", "W", "X", "Y", "Z" >>

LowerLetters ==
    << "a", "b", "c", "d", "e", "f", "g", "h", "i", "j", "k", "l", "m",
       "n", "o", "p", "q", "r", "s", "t", "u", "v", "w", "x", "y", "z" >>

Digits == << "0", "1", "2", "3", "4", "5", "6", "7", "8", "9" >>

\* str.lower() of one character; the result is a string (U+0130 gives two
\* characters, U+212A gives the ASCII "k").
Lower(c) ==
    IF \E i \in 1..Len(UpperLetters) : UpperLetters[i] = c
    THEN << LowerLetters[CHOOSE i \in 1..Len(UpperLetters) : UpperLetters[i] = c] >>
    ELSE IF c = "KELVIN" THEN << "k" >>
    ELSE IF c = "IDOT" THEN << "i", "COMBINING_DOT" >>
    ELSE << c >>

\* The literal "_abcdefghijklmnopqrstuvwxyz0123456789".
SafeChars == << "_" >> \o LowerLetters \o Digits

\* (char if char.lower() in "_abc...789" else "_")
SanitizeChar(c) ==
    IF IsSubstring(Lower(c), SafeChars) THEN c ELSE "_"

\* ''.join([... for char in file_suffix])
Sanitize(s) == [i \in 1..Len(s) |-> SanitizeChar(s[i])]

\* ------------------------------------------------------------------- paths

\* Leading separators of a string.
RECURSIVE LeadingSlashes(_)
LeadingSlashes(s) ==
    IF s # << >> /\ Head(s) = "/" THEN 1 + LeadingSlashes(Tail(s)) ELSE 0

\* The components of a string between its separators, in order; empty ones
\* (two separators in a row) are not components.
Components(s) ==
    LET starts == { i \in 1..Len(s) :
                      s[i] # "/" /\ (i = 1 \/ s[i - 1] = "/") }
        end(i) == CHOOSE j \in i..Len(s) :
                      /\ \A k \in i..j : s[k] # "/"
                      /\ (j = Len(s) \/ s[j + 1] = "/")
        nth(n) == CHOOSE i \in starts : Cardinality({ j \in starts : j < i }) = n - 1
    IN  [n \in 1..Cardinality(starts) |-> SubSeq(s, nth(n), end(nth(n)))]

IsNotDot(c) == c # << "." >>

\* pathlib.Path(s) on POSIX: the root ("" for a relative path, "//" for
\* exactly two leading separators, "/" otherwise) and the components, with
\* empty and "." components dropped.
PathOf(s) ==
    [root  |-> IF LeadingSlashes(s) = 0 THEN ""
               ELSE IF LeadingSlashes(s) = 2 THEN "//" ELSE "/",
     parts |-> SelectSeq(Components(s), IsNotDot)]

\* Path.parent: the path without its last component; the root and "." are
\* their own parent.
Parent(p) ==
    IF p.parts = << >> THEN p
    ELSE [p EXCEPT !.parts = SubSeq(p.parts, 1, Len(p.parts) - 1)]

\* The path and all the paths above it, up to the root (or ".").
RECURSIVE Chain(_)
Chain(p) == IF Parent(p) = p THEN {p} ELSE {p} \cup Chain(Parent(p))

\* The root "/" (or "//") of an absolute path, "." of a relative one: it
\* always exists.
Anchor(p) == [p EXCEPT !.parts = << >>]

\* The states of the file system along the way from a path to the root:
\* what exists contains the root and, with a path, its parent; any of the
\* existing paths may be writable.
FileSystems(p) ==
    { fs \in [exists : SUBSET Chain(p), writable : SUBSET Chain(p)] :
        /\ Anchor(p) \in fs.exists
        /\ \A q \in fs.exists : Parent(q) \in fs.exists
        /\ fs.writable \subseteq fs.exists }

\* ------------------------------------------------- version extraction

V18 == << "1", "8", ".", "1", ".", "0" >>
V19 == << "1", "9", ".", "0", ".", "0" >>

(***************************************************************************)
(* A line of subprocess output is a sequence of segments.  A segment of    *)
(* kind "cmake_set" is the text set(LLVM_PACKAGE_VERSION <v>), one of kind *)
(* "dpkg_ver" is the text 1:<v>~, one of kind "libcxx_name" is the text    *)
(* "  libc++", and one of kind "text" is any text none of the patterns     *)
(* matches (set(LLVM_PACKAGE_VERSION 19.0.0git) is one).                   *)
(***************************************************************************)
Seg(kind, v) == [kind |-> kind, v |-> v]
Text == Seg("text", << >>)
LibcxxName == Seg("libcxx_name", << >>)

\* re.search(pattern, line): the leftmost match's group(1), or None.
re_search(pattern, line) ==
    IF \E i \in 1..Len(line) : line[i].kind = pattern
    THEN LET first == CHOOSE i \in 1..Len(line) :
                        /\ line[i].kind = pattern
                        /\ \A j \in 1..(i - 1) : line[j].kind # pattern
         IN  Some(line[first].v)
    ELSE None

\* The set of versions; `pattern` stands for the pair (re_prefix, re_suffix).
extract_version_numbers(batch, pattern) ==
    { m[1] : m \in { re_search(pattern, batch[i]) : i \in 1..Len(batch) } \ {None} }

\* [line for line in result.splitlines() if "  libc++" in line]
IsLibcxxLine(line) == \E i \in 1..Len(line) : line[i].kind = "libcxx_name"

\* Every sequence over S of a length in lo..hi.
SeqsOf(S, lo, hi) == UNION { [1..n -> S] : n \in lo..hi }

\* Lines that `grep -r LLVM_PACKAGE_VERSION <dir>` may print.
GrepLines ==
    { << Text >>,
      << Seg("cmake_set", V18) >>,
      << Seg("cmake_set", V19) >>,
      << Text, Seg("cmake_set", V18) >>,
      << Seg("cmake_set", V18), Seg("cmake_set", V19) >>,
      << Seg("cmake_set", V19), Seg("dpkg_ver", V18) >> }

\* Lines that `dpkg -l` may print.
DpkgLines ==
    { << Text >>,
      << LibcxxName, Seg("dpkg_ver", V18) >>,
      << LibcxxName, Seg("dpkg_ver", V19) >>,
      << LibcxxName, Text >>,
      << Text, Seg("dpkg_ver", V19) >> }

\* ---------------------------------------------------------------- inputs

Str_llvmorg_18_1_0 ==
    << "l", "l", "v", "m", "o", "r", "g", "-", "1", "8", ".", "1", ".", "0" >>

TagChoices ==
    { None, Some(<< >>), Some(Str_llvmorg_18_1_0),
      Some(<< "r", "/", "A", ".", "KELVIN" >>), Some(<< "IDOT" >>) }

BranchChoices ==
    { None, Some(<< >>), Some(<< "m", "a", "i", "n" >>),
      Some(<< "r", "e", "l", "/", "1", "9", ".", "x" >>) }

CommitChoices ==
    { None, Some(<< >>),
      Some(<< "0", "1", "2", "3", "4", "5", "6", "7", "8", "9", "a", "b" >>),
      Some(<< "a", "b", "c", "1", "2", "3", "4" >>) }

\* --download-to: "/tmp/x", "rel", "".
DownloadToChoices == { << "/", "tmp", "/", "x" >>, << "rel" >>, << >> }

\* --libcxx-so, and what os.path.realpath gives when it is a link.
LibcxxSoArg ==
    << "/", "usr", "/", "lib", "/", "x86_64-linux-gnu", "/", "libc++.so.1" >>
LibcxxSoTarget ==
    << "/", "usr", "/", "lib", "/", "llvm-18", "/", "lib", "/", "libc++.so.1.0" >>

\* What is at args.libcxx_so: nothing, a regular file, a link to one, or
\* something else (a directory).
SoKinds == { "absent", "file", "link", "dir" }

\* What urlopen and the copy of the response can end in.
NetOutcomes == { "ok", "HTTPError", "URLError", "TimeoutError", "OtherException" }

\* ----------------------------------------------------------------- state

VARIABLES
    pc,               \* where main() is
    args,             \* the argparse namespace
    so_kind,          \* the file system at args.libcxx_so
    selector,         \* the branch of the if/elif chain of parse_args taken
    url_middle,       \* parse_args
    file_suffix,      \* parse_args
    lines,            \* find_libcxx_so_version: grep's output lines
    version,          \* the result of find_libcxx_so_version / find_libcxx_version
    package_versions, \* the result of find_installed_libcxx_package_versions
    ret,              \* the dict parse_args returns
    file_path,        \* main
    path,             \* has_write_access
    fs,               \* the file system from file_path up to the root
    access,           \* the result of has_write_access
    download_result,  \* the result of download_file
    dest_file,        \* the state of the file at file_path
    auto_load,        \* the auto-load script written
    calls,            \* how often grep, dpkg, urlopen and mkdir were called
    exc,              \* the exception that ended the run
    exit_status,      \* the exit status of the process
    stdout            \* what was printed

vars ==
    << pc, args, so_kind, selector, url_middle, file_suffix, lines, version,
       package_versions, ret, file_path, path, fs, access, download_result,
       dest_file, auto_load, calls, exc, exit_status, stdout >>

(***************************************************************************)
(* An exception: its type, its message, the URL the message quotes (empty  *)
(* when it quotes none), its __cause__ (the `from` of the raise) and its   *)
(* __context__ (the exception that was being handled when it was raised).  *)
(***************************************************************************)
Exception(type, msg, context) ==
    [type |-> type, msg |-> msg, url |-> << >>, cause |-> "None",
     context |-> context]

NoExc == Exception("None", "", "None")

\* raise RuntimeError(msg) from cause; url is the URL the message quotes.
RuntimeError(msg, url, cause) ==
    [type |-> "RuntimeError", msg |-> msg, url |-> url, cause |-> cause,
     context |-> cause]

NoPath == [root |-> "", parts |-> << >>]

ArgsSets ==
    [tag : TagChoices, branch : BranchChoices, commit : CommitChoices,
     download_to : DownloadToChoices, libcxx_so : {LibcxxSoArg}]

\* add_mutually_exclusive_group: argparse accepts at most one of the three.
MutuallyExclusive(a) ==
    Cardinality({ f \in {"tag", "branch", "commit"} : a[f] # None }) <= 1

InitRest ==
    /\ pc = "parse_args"
    /\ so_kind \in SoKinds
    /\ selector = "none"
    /\ url_middle = << >>
    /\ file_suffix = << >>
    /\ lines = << >>
    /\ version = None
    /\ package_versions = None
    /\ ret = None
    /\ file_path = << >>
    /\ path = NoPath
    /\ fs = [exists |-> {}, writable |-> {}]
    /\ access = None
    /\ download_result = None
    /\ dest_file = "untouched"
    /\ auto_load = None
    /\ calls = [grep |-> 0, dpkg |-> 0, urlopen |-> 0, mkdir |-> 0]
    /\ exc = NoExc
    /\ exit_status = None
    /\ stdout = << >>

\* The namespace parser.parse_args() returns.
Init ==
    /\ args \in { a \in ArgsSets : MutuallyExclusive(a) }
    /\ InitRest

\* Any namespace: the overrides are not mutually exclusive (a test's
\* construction of args, which argparse itself never returns).
InitAnyArgs ==
    /\ args \in ArgsSets
    /\ InitRest

\* An uncaught exception ends the run with a traceback and status 1.
Raise(e) ==
    /\ pc' = "exit"
    /\ exc' = e
    /\ exit_status' = Some(1)

\* ------------------------------------------------------------- parse_args

\* Variant: the chain with the branch tested before the tag.
selected_branch_branch_first(a) ==
    IF Truthy(a.branch) THEN "branch"
    ELSE IF Truthy(a.tag) THEN "tag"
    ELSE IF Truthy(a.commit) THEN "commit"
    ELSE "derived"

\* The conditions of the if/elif chain: the branch that runs.
selected_branch(a) ==
    IF Truthy(a.tag) THEN "tag"
    ELSE IF Truthy(a.branch) THEN "branch"
    ELSE IF Truthy(a.commit) THEN "commit"
    ELSE "derived"

\* Variant: the whole hash, not its first 11 characters.
commit_suffix_whole_hash(commit) ==
    << "c", "o", "m", "m", "i", "t", "_" >> \o commit

\* "commit_" + args.commit[:11]
commit_suffix(commit) ==
    << "c", "o", "m", "m", "i", "t", "_" >> \o Prefix(commit, CommitPrefixLen)

\* The if/elif chain: the three overrides, and the way into the else branch.
parse_args_select ==
    /\ pc = "parse_args"
    /\ IF selected_branch(args) = "tag" THEN
            /\ selector' = "tag"
            /\ url_middle' = << "refs/tags/" >> \o args.tag[1]
            /\ file_suffix' = << "t", "a", "g", "_" >> \o args.tag[1]
            /\ pc' = "sanitize"
       ELSE IF selected_branch(args) = "branch" THEN
            /\ selector' = "branch"
            /\ url_middle' = << "refs/heads/" >> \o args.branch[1]
            /\ file_suffix' = << "b", "r", "a", "n", "c", "h", "_" >> \o args.branch[1]
            /\ pc' = "sanitize"
       ELSE IF selected_branch(args) = "commit" THEN
            /\ selector' = "commit"
            /\ url_middle' = args.commit[1]
            /\ file_suffix' = commit_suffix(args.commit[1])
            /\ pc' = "sanitize"
       ELSE
            /\ selector' = "derived"
            /\ pc' = "find_libcxx_so_version"
            /\ UNCHANGED << url_middle, file_suffix >>
    /\ UNCHANGED << args, so_kind, lines, version, package_versions, ret,
                    file_path, path, fs, access, download_result, dest_file,
                    auto_load, calls, exc, exit_status, stdout >>

\* find_real_path(path): the exception it raises, if any.
find_real_path_error ==
    IF so_kind = "absent"
    THEN Some(RuntimeError("File does not exist", << >>, "None"))
    ELSE IF so_kind = "dir"
    THEN Some(RuntimeError("Path is not a real file or a link", << >>, "None"))
    ELSE None

\* find_real_path(path): os.path.realpath(path).
find_real_path(p) == IF so_kind = "link" THEN LibcxxSoTarget ELSE p

\* find_libcxx_so_version up to result.splitlines(): find_real_path, then
\* grep through run_command.  grep that selects no line ends with status 1,
\* which check=True turns into CalledProcessError.
find_libcxx_so_version_grep ==
    /\ pc = "find_libcxx_so_version"
    /\ IF find_real_path_error # None
       THEN /\ Raise(find_real_path_error[1])
            /\ UNCHANGED << lines, calls >>
       ELSE /\ calls' = [calls EXCEPT !.grep = @ + 1]
            /\ \/ /\ Raise(RuntimeError("Error: command \"grep\" not found",
                                        << >>, "FileNotFoundError"))
                  /\ UNCHANGED lines
               \/ /\ Raise(Exception("CalledProcessError", "grep", "None"))
                  /\ UNCHANGED lines
               \/ /\ lines' \in SeqsOf(GrepLines, 1, MaxLines)
                  /\ pc' = "extract_version_numbers"
                  /\ UNCHANGED << exc, exit_status >>
    /\ UNCHANGED << args, so_kind, selector, url_middle, file_suffix, version,
                    package_versions, ret, file_path, path, fs, access,
                    download_result, dest_file, auto_load, stdout >>

\* The rest of find_libcxx_so_version: the versions of the lines, and the
\* two failures.
find_libcxx_so_version_extract ==
    /\ pc = "extract_version_numbers"
    /\ LET versions == extract_version_numbers(lines, "cmake_set")
       IN  IF Cardinality(versions) = 0
           THEN /\ Raise(RuntimeError("Unable to find \"LLVM_PACKAGE_VERSION\"",
                                      << >>, "None"))
                /\ UNCHANGED version
           ELSE IF Cardinality(versions) # 1
           THEN /\ Raise(RuntimeError(
                            "Found more than one definition of \"LLVM_PACKAGE_VERSION\"",
                            << >>, "None"))
                /\ UNCHANGED version
           ELSE /\ version' = Some(CHOOSE v \in versions : TRUE)
                /\ pc' = "find_installed_libcxx_package_versions"
                /\ UNCHANGED << exc, exit_status >>
    /\ UNCHANGED << args, so_kind, selector, url_middle, file_suffix, lines,
                    package_versions, ret, file_path, path, fs, access,
                    download_result, dest_file, auto_load, calls, stdout >>

\* find_installed_libcxx_package_versions: dpkg through run_command, the
\* lines of the libc++ packages, their versions.  find_libcxx_so_version has
\* returned: its lines are gone.
find_installed_libcxx_package_versions ==
    /\ pc = "find_installed_libcxx_package_versions"
    /\ lines' = << >>
    /\ calls' = [calls EXCEPT !.dpkg = @ + 1]
    /\ \/ /\ Raise(RuntimeError("Error: command \"dpkg\" not found",
                                << >>, "FileNotFoundError"))
          /\ UNCHANGED package_versions
       \/ /\ Raise(Exception("CalledProcessError", "dpkg", "None"))
          /\ UNCHANGED package_versions
       \/ /\ \E result \in SeqsOf(DpkgLines, 0, MaxLines) :
                package_versions' =
                    Some(extract_version_numbers(
                            SelectSeq(result, IsLibcxxLine), "dpkg_ver"))
          /\ pc' = "cross_check"
          /\ UNCHANGED << exc, exit_status >>
    /\ UNCHANGED << args, so_kind, selector, url_middle, file_suffix, version,
                    ret, file_path, path, fs, access, download_result,
                    dest_file, auto_load, stdout >>

\* Variant: the test of the warning inverted.
mismatch_warning_inverted(so_version, versions) ==
    IF so_version \in versions
    THEN << << "Warning: version does not match installed package versions",
               so_version >> >>
    ELSE << >>

\* if so_version not in package_versions: print(f"Warning: ...")
mismatch_warning(so_version, versions) ==
    IF so_version \notin versions
    THEN << << "Warning: version does not match installed package versions",
               so_version >> >>
    ELSE << >>

\* The end of find_libcxx_version (the warning, the return) and the else
\* branch of parse_args, which uses the version.
find_libcxx_version_return ==
    /\ pc = "cross_check"
    /\ stdout' = stdout \o mismatch_warning(version[1], package_versions[1])
    /\ url_middle' = << "refs/tags/llvmorg-" >> \o version[1]
    /\ file_suffix' = << "t", "a", "g", "_", "l", "l", "v", "m", "o", "r", "g", "_" >>
                        \o version[1]
    /\ pc' = "sanitize"
    /\ UNCHANGED << args, so_kind, selector, lines, version, package_versions,
                    ret, file_path, path, fs, access, download_result,
                    dest_file, auto_load, calls, exc, exit_status >>

\* The end of parse_args: the suffix sanitized, the dict built (which calls
\* find_real_path).
parse_args_return ==
    /\ pc = "sanitize"
    /\ file_suffix' = Sanitize(file_suffix)
    /\ IF find_real_path_error # None
       THEN /\ Raise(find_real_path_error[1])
            /\ UNCHANGED ret
       ELSE /\ ret' = Some(
                [url |-> << "https://raw.githubusercontent.com/llvm/llvm-project/" >>
                           \o url_middle
                           \o << "/libcxx/utils/gdb/libcxx/printers.py" >>,
                 file_name |-> << "libcxx_printers_" >> \o file_suffix',
                 download_to |-> args.download_to,
                 libcxx_so_path |-> find_real_path(args.libcxx_so)])
            /\ pc' = "main"
            /\ UNCHANGED << exc, exit_status >>
    /\ UNCHANGED << args, so_kind, selector, url_middle, lines, version,
                    package_versions, file_path, path, fs, access,
                    download_result, dest_file, auto_load, calls, stdout >>

\* -------------------------------------------------------------------- main

\* main up to the call of download_file: file_path.  The file system on the
\* way from file_path to the root is whatever it is at that moment.
main_file_path ==
    /\ pc = "main"
    /\ LET dest == ret[1].download_to \o << "/" >> \o ret[1].file_name \o << ".py" >>
       IN  /\ file_path' = dest
           /\ fs' \in FileSystems(PathOf(dest))
           /\ path' = PathOf(dest)
    /\ pc' = "has_write_access"
    /\ UNCHANGED << args, so_kind, selector, url_middle, file_suffix, lines,
                    version, package_versions, ret, access, download_result,
                    dest_file, auto_load, calls, exc, exit_status, stdout >>

\* Variant: the loop without `path = path.parent`.
has_write_access_no_parent ==
    /\ pc = "has_write_access"
    /\ IF path \in fs.exists
       THEN /\ access' = Some(path \in fs.writable)
            /\ pc' = "download_file"
            /\ UNCHANGED path
       ELSE UNCHANGED << path, access, pc >>
    /\ UNCHANGED << args, so_kind, selector, url_middle, file_suffix, lines,
                    version, package_versions, ret, file_path, fs,
                    download_result, dest_file, auto_load, calls, exc,
                    exit_status, stdout >>

\* One turn of the loop of has_write_access.
has_write_access ==
    /\ pc = "has_write_access"
    /\ IF path \in fs.exists
       THEN /\ access' = Some(path \in fs.writable)
            /\ pc' = "download_file"
            /\ UNCHANGED path
       ELSE /\ path' = Parent(path)
            /\ UNCHANGED << access, pc >>
    /\ UNCHANGED << args, so_kind, selector, url_middle, file_suffix, lines,
                    version, package_versions, ret, file_path, fs,
                    download_result, dest_file, auto_load, calls, exc,
                    exit_status, stdout >>

\* The except clauses of download_file: the exception that leaves it when
\* urlopen or the copy raised `raised`.  The TimeoutError clause binds no
\* name, so its `from e` reads a local that has no value.
download_file_except(raised, url) ==
    IF raised = "HTTPError" THEN RuntimeError("HTTP Error", url, "HTTPError")
    ELSE IF raised = "URLError" THEN RuntimeError("URL Error", url, "URLError")
    ELSE IF raised = "TimeoutError"
    THEN Exception("UnboundLocalError",
                   "cannot access local variable 'e' where it is not associated with a value",
                   "TimeoutError")
    ELSE RuntimeError("An unexpected error occurred", << >>, raised)

\* Variant: the result of has_write_access not looked at.
no_write_access_unchecked == FALSE

\* if not has_write_access(file_path): return False
no_write_access == ~access[1]

\* download_file after has_write_access: the early return, mkdir, and the
\* try statement.
download_file ==
    /\ pc = "download_file"
    /\ IF no_write_access
       THEN /\ download_result' = Some(FALSE)
            /\ pc' = "main_after_download"
            /\ UNCHANGED << fs, dest_file, calls, exc, exit_status >>
       ELSE \/ \* mkdir raises (an ancestor is not a directory, ...)
               /\ calls' = [calls EXCEPT !.mkdir = @ + 1]
               /\ Raise(Exception("OSError", "mkdir", "None"))
               /\ UNCHANGED << fs, dest_file, download_result >>
            \/ \* mkdir makes the missing directories; then urlopen
               /\ calls' = [calls EXCEPT !.mkdir = @ + 1, !.urlopen = @ + 1]
               /\ LET dirs == Chain(Parent(PathOf(file_path)))
                      made == [exists |-> fs.exists \cup dirs,
                               writable |-> fs.writable \cup (dirs \ fs.exists)]
                  IN  \E outcome \in NetOutcomes :
                        IF outcome = "ok"
                        THEN \/ \* open(file_path, 'wb') and the copy
                                /\ fs' = [made EXCEPT !.exists = @ \cup {PathOf(file_path)}]
                                /\ dest_file' = "complete"
                                /\ download_result' = Some(TRUE)
                                /\ pc' = "main_after_download"
                                /\ UNCHANGED << exc, exit_status >>
                             \/ \* open(file_path, 'wb') raises
                                /\ fs' = made
                                /\ Raise(download_file_except("OSError", ret[1].url))
                                /\ UNCHANGED << dest_file, download_result >>
                        ELSE /\ Raise(download_file_except(outcome, ret[1].url))
                             /\ \/ \* raised by urlopen
                                   /\ fs' = made
                                   /\ UNCHANGED dest_file
                                \/ \* raised by the copy: the file is there, cut short
                                   /\ outcome \in {"TimeoutError", "OtherException"}
                                   /\ fs' = [made EXCEPT !.exists = @ \cup {PathOf(file_path)}]
                                   /\ dest_file' = "partial"
                             /\ UNCHANGED download_result
    /\ UNCHANGED << args, so_kind, selector, url_middle, file_suffix, lines,
                    version, package_versions, ret, file_path, path, access,
                    auto_load, stdout >>

\* auto_load_file_contents: the template's two variable parts.
auto_load_file_contents(download_to, module_name) ==
    [pythondir |-> download_to, import |-> module_name]

\* Variant: the result of download_file not looked at.
download_failed_unchecked == FALSE

\* if not download_file(url, file_path): ... sys.exit(1)
download_failed == ~download_result[1]

\* main after download_file: the exit on False, the prints, the auto-load
\* script.
main_finish ==
    /\ pc = "main_after_download"
    /\ IF download_failed
       THEN /\ stdout' = Append(stdout, << "Permission denied", file_path >>)
            /\ exit_status' = Some(1)
            /\ pc' = "exit"
            /\ UNCHANGED << auto_load, exc >>
       ELSE LET printed == stdout \o << << "Successfully downloaded", ret[1].url >>,
                                        << "...and saved file to", file_path >> >>
                auto_load_file_path == << "/usr/share/gdb/auto-load" >>
                                         \o ret[1].libcxx_so_path \o << "-gdb.py" >>
            IN  \/ /\ auto_load' = Some(
                        [path |-> auto_load_file_path,
                         contents |-> auto_load_file_contents(ret[1].download_to,
                                                              ret[1].file_name)])
                   /\ stdout' = Append(printed, << "Wrote GDB auto-load script to",
                                                   auto_load_file_path >>)
                   /\ exit_status' = Some(0)
                   /\ pc' = "exit"
                   /\ UNCHANGED exc
                \/ \* open(auto_load_file_path, "w") raises
                   /\ stdout' = printed
                   /\ Raise(Exception("OSError", "open auto-load file", "None"))
                   /\ UNCHANGED auto_load
    /\ UNCHANGED << args, so_kind, selector, url_middle, file_suffix, lines,
                    version, package_versions, ret, file_path, path, fs,
                    access, download_result, dest_file, calls >>

Next ==
    \/ parse_args_select
    \/ find_libcxx_so_version_grep
    \/ find_libcxx_so_version_extract
    \/ find_installed_libcxx_package_versions
    \/ find_libcxx_version_return
    \/ parse_args_return
    \/ main_file_path
    \/ has_write_access
    \/ download_file
    \/ main_finish

\* One run of the program on the namespace argparse returns.
Spec == Init /\ [][Next]_vars

\* One run on any namespace.
SpecAnyArgs == InitAnyArgs /\ [][Next]_vars

\* The program is one thread that keeps running: the loop of
\* has_write_access takes its next turn whenever it has one to take.
FairSpec == Init /\ [][Next]_vars /\ WF_vars(has_write_access)

\* ----------------------------------------------------------------- claims

\* An override field is populated: it was given, and given a value.
Populated(opt) == opt # None /\ Len(opt[1]) > 0

\* The first populated override, in the order tag, branch, commit.
FirstPopulated ==
    IF Populated(args.tag) THEN "tag"
    ELSE IF Populated(args.branch) THEN "branch"
    ELSE IF Populated(args.commit) THEN "commit"
    ELSE "derived"

\* C1: whatever overrides are populated (all three at once included), the
\* branch of parse_args that runs is the one of the first populated override
\* in the order tag, branch, commit, and the derived branch when none is; no
\* branch has run before the chain, one has after it; grep and dpkg are
\* called, and a version is extracted, only when no override is populated.
C1_SelectorPrecedence ==
    /\ pc = "parse_args" => selector = "none"
    /\ pc # "parse_args" => selector = FirstPopulated
    /\ (calls.grep > 0 \/ calls.dpkg > 0 \/ version # None \/ package_versions # None)
         => /\ ~Populated(args.tag)
            /\ ~Populated(args.branch)
            /\ ~Populated(args.commit)

\* C1's case: tag, branch and commit all populated, the run over, the tag
\* branch taken and no subprocess run.
C1_Witness ==
    /\ Populated(args.tag) /\ Populated(args.branch) /\ Populated(args.commit)
    /\ pc = "exit"
    /\ selector = "tag"
    /\ calls.grep = 0 /\ calls.dpkg = 0

\* Every version that a batch of lines holds under the marker
\* set(LLVM_PACKAGE_VERSION <v>).
MarkedVersions(batch) ==
    { batch[i][j].v : <<i, j>> \in
        { ij \in (1..Len(batch)) \X (1..3) :
            ij[2] <= Len(batch[ij[1]]) /\ batch[ij[1]][ij[2]].kind = "cmake_set" } }

\* grep's lines have been gone through: find_libcxx_so_version has returned
\* a version or raised.
Extracted ==
    /\ lines # << >>
    /\ pc \in {"find_installed_libcxx_package_versions", "exit"}

\* C2: once the scanned lines have been gone through, if they hold exactly
\* one distinct version under the marker that version is the result; if they
\* hold none, or two or more distinct ones, the extraction has failed and no
\* version is returned.
C2_ExactlyOneVersionOrFailure ==
    Extracted =>
        IF Cardinality(MarkedVersions(lines)) = 1
        THEN version = Some(CHOOSE v \in MarkedVersions(lines) : TRUE) /\ exc = NoExc
        ELSE version = None /\ exc.type = "RuntimeError"

\* The first existing path among p and its parents.
RECURSIVE FirstExisting(_, _)
FirstExisting(p, exists) ==
    IF p \in exists \/ Parent(p) = p THEN p ELSE FirstExisting(Parent(p), exists)

\* C3: when the write-access check fails, download_file returns False with
\* no network call made, no mkdir and no path created between the nearest
\* existing ancestor and the destination; the run then ends with the
\* Permission denied message printed last, status 1 and no exception.
C3_PermissionDeniedBeforeNetwork ==
    access = Some(FALSE) =>
        /\ calls.urlopen = 0
        /\ calls.mkdir = 0
        /\ dest_file = "untouched"
        /\ FirstExisting(PathOf(file_path), fs.exists) = path
        /\ pc \in {"download_file", "main_after_download", "exit"}
        /\ pc # "download_file" => download_result = Some(FALSE)
        /\ pc = "exit" =>
              /\ exit_status = Some(1)
              /\ exc = NoExc
              /\ stdout # << >>
              /\ stdout[Len(stdout)] = << "Permission denied", file_path >>

\* C3's case: a run that ended on a destination whose nearest existing
\* ancestor, above the download directory, is not writable.
C3_Witness ==
    /\ access = Some(FALSE)
    /\ pc = "exit"
    /\ Len(path.parts) + 2 <= Len(PathOf(file_path).parts)

\* C4: on the derived path, when the extraction gave a version and dpkg is
\* not there, version resolution is not aborted: no run ends with the
\* "command dpkg not found" error once the version is known.
C4_MissingDpkgDoesNotAbort ==
    ~ /\ selector = "derived"
      /\ version # None
      /\ pc = "exit"
      /\ exc.type = "RuntimeError"
      /\ exc.msg = "Error: command \"dpkg\" not found"

\* The warnings printed.
Warnings ==
    SelectSeq(stdout,
              LAMBDA m : m[1] = "Warning: version does not match installed package versions")

\* C5: on the derived path, once the cross-checker has returned a set S and
\* find_libcxx_version has returned, for the extracted version v the remote
\* fragment is refs/tags/llvmorg-<v> whatever S is, one warning has been
\* printed if v is not in S and none if it is, no exception has been raised
\* by then, and parse_args goes on to return a URL built on that fragment.
C5_CrossCheckIsAdvisory ==
    (package_versions # None /\ pc # "cross_check") =>
        /\ selector = "derived"
        /\ version # None
        /\ url_middle = << "refs/tags/llvmorg-" >> \o version[1]
        /\ Len(Warnings) = (IF version[1] \in package_versions[1] THEN 0 ELSE 1)
        /\ pc = "sanitize" => exc = NoExc
        /\ pc \notin {"sanitize", "exit"} => ret # None
        /\ ret # None =>
              ret[1].url = << "https://raw.githubusercontent.com/llvm/llvm-project/",
                              "refs/tags/llvmorg-" >> \o version[1]
                              \o << "/libcxx/utils/gdb/libcxx/printers.py" >>

\* C5's case: the library is 19.0.0, the installed packages are known and
\* 19.0.0 is not among them, and the run has ended with status 0.
C5_Witness ==
    /\ version = Some(V19)
    /\ package_versions = Some({V18})
    /\ Len(Warnings) = 1
    /\ exit_status = Some(0)

\* The characters of [A-Za-z0-9_].
SafeAlphabet ==
    { UpperLetters[i] : i \in 1..Len(UpperLetters) }
      \cup { LowerLetters[i] : i \in 1..Len(LowerLetters) }
      \cup { Digits[i] : i \in 1..Len(Digits) }
      \cup { "_" }

\* The suffix fragment as parse_args assembles it, before it is sanitized.
SuffixFragment ==
    IF selector = "tag" THEN << "t", "a", "g", "_" >> \o args.tag[1]
    ELSE IF selector = "branch"
    THEN << "b", "r", "a", "n", "c", "h", "_" >> \o args.branch[1]
    ELSE IF selector = "commit"
    THEN << "c", "o", "m", "m", "i", "t", "_" >>
           \o [i \in 1..(IF Len(args.commit[1]) < 11 THEN Len(args.commit[1]) ELSE 11)
                 |-> args.commit[1][i]]
    ELSE << "t", "a", "g", "_", "l", "l", "v", "m", "o", "r", "g", "_" >> \o version[1]

\* C6: once the suffix has been sanitized, every character of it is one of
\* [A-Za-z0-9_], it is as long as the fragment it was made from, and
\* sanitizing it again leaves it as it is.
C6_SanitizedSuffixAlphabet ==
    ret # None =>
        /\ \A i \in 1..Len(file_suffix) : file_suffix[i] \in SafeAlphabet
        /\ Len(file_suffix) = Len(SuffixFragment)
        /\ Sanitize(file_suffix) = file_suffix

\* The remote fragment of the selector.
RemoteFragment ==
    IF selector = "tag" THEN << "refs/tags/" >> \o args.tag[1]
    ELSE IF selector = "branch" THEN << "refs/heads/" >> \o args.branch[1]
    ELSE IF selector = "commit" THEN args.commit[1]
    ELSE << "refs/tags/llvmorg-" >> \o version[1]

\* A character of the sanitized suffix, for the characters of ASCII.
Replaced(c) == IF c \in SafeAlphabet THEN c ELSE "_"

\* C7: once parse_args has returned, the URL holds the selector's remote
\* fragment (refs/tags/<t>, refs/heads/<b>, the whole commit hash,
\* refs/tags/llvmorg-<v>), the file name is libcxx_printers_ and the suffix
\* fragment (tag_<t>, branch_<b>, commit_ and the first 11 characters of the
\* hash, tag_llvmorg_<v>) sanitized once; the destination is
\* <download_dir>/<file name>.py, and the file name without its prefix is
\* the sanitized suffix.  The tag llvmorg-18.1.0 gives
\* libcxx_printers_tag_llvmorg_18_1_0.
C7_LocatorAndFileName ==
    ret # None =>
        /\ ret[1].url = << "https://raw.githubusercontent.com/llvm/llvm-project/" >>
                          \o RemoteFragment
                          \o << "/libcxx/utils/gdb/libcxx/printers.py" >>
        /\ ret[1].file_name = << "libcxx_printers_" >> \o Sanitize(SuffixFragment)
        /\ Tail(ret[1].file_name) = file_suffix
        /\ \A i \in 1..Len(SuffixFragment) :
              SuffixFragment[i] \notin {"KELVIN", "IDOT"}
                => file_suffix[i] = Replaced(SuffixFragment[i])
        /\ ret[1].download_to = args.download_to
        /\ file_path # << >> =>
              /\ file_path = args.download_to \o << "/" >> \o ret[1].file_name \o << ".py" >>
              /\ SubSeq(file_path, Len(args.download_to) + 3, Len(file_path) - 1)
                    = file_suffix
        /\ (selector = "tag" /\ args.tag = Some(Str_llvmorg_18_1_0)) =>
              ret[1].file_name =
                << "libcxx_printers_", "t", "a", "g", "_", "l", "l", "v", "m", "o",
                   "r", "g", "_", "1", "8", "_", "1", "_", "0" >>

\* C7's case: a commit hash of more than 11 characters was given, and the
\* destination path has been built.
C7_Witness ==
    /\ selector = "commit"
    /\ Len(args.commit[1]) > 11
    /\ file_path # << >>

\* C8: a run in which the fetch raised an HTTP error, a network error or a
\* timeout ends with the RuntimeError that quotes the URL and has that
\* error as its cause; and no run calls urlopen more than once.
C8_TransportFailureCarriesUrl ==
    /\ calls.urlopen <= 1
    /\ exc.context \in {"HTTPError", "URLError", "TimeoutError"} =>
          /\ pc = "exit"
          /\ exc.type = "RuntimeError"
          /\ exc.url = ret[1].url
          /\ exc.cause = exc.context

\* C9: the auto-load script is written only once download_file has returned
\* True, and it is the last thing done; a run in which download_file
\* returned False or any step raised has written none; status 0 is reached
\* only with the script written.
C9_AutoLoadOnlyAfterFetch ==
    /\ auto_load # None =>
          /\ download_result = Some(TRUE)
          /\ dest_file = "complete"
          /\ pc = "exit"
          /\ exit_status = Some(0)
    /\ (download_result = Some(FALSE) \/ exc # NoExc) => auto_load = None
    /\ exit_status = Some(0) => auto_load # None
    /\ (pc = "exit" /\ download_result # Some(TRUE)) => exit_status = Some(1)

\* C9's case: a run that ended with the script written for the real path of
\* the library.
C9_Witness ==
    /\ pc = "exit"
    /\ auto_load # None
    /\ auto_load[1].path = << "/usr/share/gdb/auto-load" >> \o LibcxxSoTarget \o << "-gdb.py" >>

\* C10: the walk of has_write_access ends for every destination, and when it
\* has ended it has stopped at the first existing path among the destination
\* and its parents and returned whether that path is writable.
C10_WalkTerminates ==
    /\ [](pc = "has_write_access" => <>(pc # "has_write_access"))
    /\ [](pc = "download_file" =>
            /\ path = FirstExisting(PathOf(file_path), fs.exists)
            /\ path \in fs.exists
            /\ access = Some(path \in fs.writable))

\* C10's case: a relative destination none of whose directories exists; the
\* walk has ended at ".", which is its own parent.
C10_Witness ==
    /\ pc = "download_file"
    /\ path = [root |-> "", parts |-> << >>]
    /\ Len(PathOf(file_path).parts) >= 2

====
